---- MODULE Spec2Model ----
(***************************************************************************)
(* Model of the pipeline execution engine of jakarta_analyze:              *)
(*   jakarta_analyze/modules/pipeline/pipeline.py         (Pipeline)       *)
(*   jakarta_analyze/modules/pipeline/pipeline_worker.py  (PipelineWorker) *)
(* The controller (Pipeline.run/setup/start/stop) is one sequential        *)
(* process; every worker started by start() is a process of its own        *)
(* running PipelineWorker._run; they share only the bounded FIFO queues.   *)
(***************************************************************************)
EXTENDS Integers, Sequences, FiniteSets, TLC

\* ------------------------------------------------------------------ bounds
\* items emitted by one call of a source worker's run(None)
NItems == 3
\* calls of run(None) a source worker's loop makes at most
MaxRuns == 2
\* worker faults (crash, hang, exception, exit) injected in one behaviour
MaxFaults == 1
\* KeyboardInterrupts delivered to the controller in one behaviour
MaxInterrupts == 1
\* run(item) calls made on the WriteKeysToFiles stage in one behaviour
MaxCalls == 3

\* ------------------------------------------------------- program constants
\* the 'STOP' sentinel (pipeline.py:338, pipeline_worker.py:131); items are 1..NItems
STOP == 0

Names == {"A", "B", "C"}
None == "None"

Range(s) == {s[i] : i \in DOMAIN s}

\* ------------------------------------------------- configurations (inputs)
\* worker descriptors as Pipeline.setup reads them from self.config['workers'];
\* kwargs_ok: the remaining keys are parameters the worker's initialize()
\* accepts, so that constructing the worker does not raise
Desc(n, t, s, nx, qs) ==
    [name |-> n, type |-> t, source |-> s, next |-> nx, queue_size |-> qs,
     kwargs_ok |-> TRUE]

\* A(source) -> B -> C
LinearConfig ==
    << Desc("A", "ReadFramesFromVidFilesInDir", TRUE, <<"B">>, 1),
       Desc("B", "Yolo3Detect", FALSE, <<"C">>, 2),
       Desc("C", "WriteKeysToFiles", FALSE, <<>>, 1) >>

\* A(source) -> C <- B(source)
FanInConfig ==
    << Desc("A", "ReadFramesFromVidFilesInDir", TRUE, <<"C">>, 1),
       Desc("B", "Yolo3Detect", TRUE, <<"C">>, 1),
       Desc("C", "WriteKeysToFiles", FALSE, <<>>, 2) >>

\* A(source) -> B, and C a non-source worker that nobody feeds
OrphanConfig ==
    << Desc("A", "ReadFramesFromVidFilesInDir", TRUE, <<"B">>, 1),
       Desc("B", "Yolo3Detect", FALSE, <<>>, 1),
       Desc("C", "WriteKeysToFiles", FALSE, <<>>, 1) >>

Configs == {LinearConfig, OrphanConfig}

\* B <- A(source) -> C: whatever A emits goes to B and to C
FanOutConfig ==
    << Desc("A", "ReadFramesFromVidFilesInDir", TRUE, <<"B", "C">>, 1),
       Desc("B", "Yolo3Detect", FALSE, <<>>, 1),
       Desc("C", "WriteKeysToFiles", FALSE, <<>>, 1) >>

\* as LinearConfig, but B's type is in no registry and is no dotted path
UnknownTypeConfig ==
    << Desc("A", "ReadFramesFromVidFilesInDir", TRUE, <<"B">>, 1),
       Desc("B", "NoSuchWorker", FALSE, <<"C">>, 2),
       Desc("C", "WriteKeysToFiles", FALSE, <<>>, 1) >>

\* as LinearConfig, but A's next also names Z, which no descriptor carries
DanglingNextConfig ==
    << Desc("A", "ReadFramesFromVidFilesInDir", TRUE, <<"B", "Z">>, 1),
       Desc("B", "Yolo3Detect", FALSE, <<"C">>, 2),
       Desc("C", "WriteKeysToFiles", FALSE, <<>>, 1) >>

\* as LinearConfig, but B lacks a parameter its initialize() requires
BadKwargsConfig ==
    << Desc("A", "ReadFramesFromVidFilesInDir", TRUE, <<"B">>, 1),
       [Desc("B", "Yolo3Detect", FALSE, <<"C">>, 2) EXCEPT !.kwargs_ok = FALSE],
       Desc("C", "WriteKeysToFiles", FALSE, <<>>, 1) >>

\* ---------------------------------------------- configuration documents
\* what Pipeline._load_config finds at config_file: kind "workers" is a
\* document with the key 'workers', "tasks" one with pipeline.tasks,
\* "other" a document with neither, "missing" no readable file
Doc(k, l) == [kind |-> k, list |-> l]

MissingDoc == Doc("missing", <<>>)
OtherDoc == Doc("other", <<>>)

\* prev_task of a legacy task: the key is absent, or its value is None or ''
Absent == "<absent>"
Empty == ""

Task(n, t, p) == [name |-> n, worker_type |-> t, prev_task |-> p, queue_size |-> 1]

TaskNames == <<"A", "B", "C">>

\* the legacy task lists over the first names of TaskNames
LegacyTasks ==
    UNION {{[i \in 1..n |-> Task(TaskNames[i], "Yolo3Detect", pt[i])] :
               pt \in [1..n -> {Absent, Empty} \cup Range(TaskNames)]} :
           n \in 1..Len(TaskNames)}

LegacyDocuments == {Doc("tasks", l) : l \in LegacyTasks}

\* the legacy task lists of up to three tasks whose names are free, so that
\* two tasks may carry the same name
NamedTasks ==
    UNION {{[i \in 1..n |-> Task(nm[i], "Yolo3Detect", pt[i])] :
               nm \in [1..n -> Range(TaskNames)],
               pt \in [1..n -> {Absent, Empty} \cup Range(TaskNames)]} :
           n \in 1..Len(TaskNames)}

\* the documents of the runs of the whole pipeline
Documents == {Doc("workers", c) : c \in Configs}

\* documents setup() is specified to reject
SetupDocuments ==
    {MissingDoc, OtherDoc} \cup
    {Doc("workers", c) : c \in {UnknownTypeConfig, DanglingNextConfig, BadKwargsConfig}}

\* setup(), lines 149-160: the keys of worker_registry (the entry of
\* WriteKeysToDatabaseTable is commented out)
worker_registry ==
    {"ReadFramesFromVidFilesInDir", "Yolo3Detect", "LKSparseOpticalFlow",
     "MeanMotionDirection", "WriteFramesToVidFiles", "ComputeFrameStats",
     "WriteKeysToFiles", "ReadFramesFromVid", "ReadFramesFromVidFile"}

\* workers_list.py, lines 63-74: the keys of WORKER_REGISTRY, a table that
\* setup() does not consult
WORKER_REGISTRY ==
    {"ReadFramesFromVidFile", "ReadFramesFromVidFilesInDir",
     "WriteFramesToVidFiles", "Yolo3Detect", "LKSparseOpticalFlow",
     "MeanMotionDirection", "ComputeFrameStats", "WriteKeysToFiles",
     "WriteKeysToDatabaseTable", "GenericWorker"}

\* setup(), lines 198-203: importlib.import_module of the entry's module
\* path succeeds when workers/ holds the module; there is no
\* workers/read_frames_from_vid.py
Importable == worker_registry \ {"ReadFramesFromVid"}

\* setup(), lines 207-211: a type with a '.' in it is imported as
\* module path and class name
GenericPath == "jakarta_analyze.modules.pipeline.workers.generic_worker.GenericWorker"

\* type names setup() resolves to a class: a key of worker_registry whose
\* module imports, or a dotted path that imports
ResolvableTypes == Importable \cup {GenericPath}

\* as LinearConfig, with B of type t
TypedConfig(t) ==
    << Desc("A", "ReadFramesFromVidFilesInDir", TRUE, <<"B">>, 1),
       Desc("B", t, FALSE, <<"C">>, 2),
       Desc("C", "WriteKeysToFiles", FALSE, <<>>, 1) >>

\* one document per type name of either table, and one with a dotted path
RegistryDocuments ==
    {Doc("workers", TypedConfig(t)) :
        t \in worker_registry \cup WORKER_REGISTRY \cup {GenericPath}}

VARIABLES
    document,       \* the configuration document at config_file
    config,         \* self.config['workers']
    workers,        \* self.workers: names in insertion order
    processes,      \* self.processes: names in insertion order
    queues,         \* self.queues["q_in_" + name]: the messages in the queue
    input_queue,    \* worker.input_queue: its own name, or None
    output_queues,  \* worker.output_queues: owners of the queues, in order
    cpc,            \* position of the controller inside run()
    stop_site,      \* where run() called the stop() in progress from
    stop_targets,   \* queues stop() still has to put 'STOP' on
    timed_out,      \* stop(): time.time() - start_time has reached timeout
    stop_ret,       \* return value of the last stop(): "none", "True", "False"
    result,         \* return value of run(): "none", "True", "False"
    forced,         \* processes stop() called terminate() on
    interrupts,     \* KeyboardInterrupts delivered so far
    wst,            \* position of each worker process inside _run
    cur,            \* the item a worker holds inside run()/done_with_item
    oi,             \* index of the next output queue to put on
    runs,           \* calls of run(None) made by a source's loop
    faults,         \* faults injected so far
    enq,            \* history: every message put on a worker's input queue
    seen,           \* history: every message a worker got from its queue
    ran,            \* history: every item passed to run(item)
    stop_calls,     \* history: number of stop() calls
    loop_crash,     \* history: processes that crashed under the supervision loop
    fwd,            \* history: owners of the queues a worker forwarded 'STOP' to
    excs,           \* history: the exceptions raised inside a worker, by origin
    puts,           \* history: the <<queue owner, item>> puts of each done_with_item
    injected,       \* history: number of 'STOP' stop() put on a worker's input queue
    buffer,         \* WriteKeysToFiles: self.buffer[filename], the lines not yet written
    written,        \* WriteKeysToFiles: the lines in each file
    arrived,        \* history: the lines appended to each file's buffer, in order
    fpc,            \* WriteKeysToFiles: "idle", inside run ("pairs"), inside close_files
                    \* ("closing"), or shut down ("down")
    fitem,          \* WriteKeysToFiles: the item of the run(item) call in progress
    fi,             \* WriteKeysToFiles: position of the loop in progress
    fn,             \* history: number of run(item) calls
    ffails          \* history: number of file writes that failed

cvars == <<cpc, stop_site, stop_targets, timed_out, stop_ret, result, forced,
           interrupts, stop_calls>>
fvars == <<buffer, written, arrived, fpc, fitem, fi, fn, ffails>>
svars == <<document, config, workers, processes, input_queue, output_queues,
          fvars>>
wvars == <<wst, cur, oi, runs, faults, seen, ran, loop_crash, fwd, excs,
          puts>>
qvars == <<queues, enq, injected>>
vars == <<cvars, svars, wvars, qvars>>

\* ------------------------------------------- WriteKeysToFiles (inputs)
\* initialize(keys, filenames, buffer_size): self.key_file_pairs =
\* list(zip(keys, filenames)); two keys go to the same file
key_file_pairs == << <<"k1", "f1">>, <<"k2", "f1">>, <<"k3", "f2">> >>
buffer_size == 2

FileKeys == {key_file_pairs[i][1] : i \in DOMAIN key_file_pairs}
Files == {key_file_pairs[i][2] : i \in DOMAIN key_file_pairs}

\* the files in the order close_files visits them
FileOrder == <<"f1", "f2">>

\* what an item holds under a key: nothing ("absent": key not in item), an
\* empty iterable ("empty": make_string returns None), or data.  The items
\* of the model hold k1, empty or not, and may lack k2 and k3
ItemKinds ==
    {it \in [FileKeys -> {"absent", "empty", "data"}] :
        it["k1"] # "absent" /\ it["k2"] # "empty" /\ it["k3"] # "empty"}

\* ------------------------------------------------------------------ helpers
RECURSIVE Flatten(_)
Flatten(ss) == IF ss = <<>> THEN <<>> ELSE Head(ss) \o Flatten(Tail(ss))

\* process.is_alive()
is_alive(w) == wst[w] \notin {"none", "exited", "crashed", "terminated"}

IsSource(w) == input_queue[w] = None

\* Queue(maxsize).put blocks while the queue holds maxsize messages
QueueSize(cfg, n) ==
    LET d == CHOOSE d \in Range(cfg) : d.name = n IN d.queue_size

\* a queue whose put never blocks
FullNever(n) == FALSE

Full(n) == Len(queues[n]) >= QueueSize(config, n)

\* ------------------------------------------------------------ _load_config
\* _load_config, line 117: worker.get('source', False) of the worker built
\* from a task; lines 103-110 set 'source' only when the key prev_task is
\* there, to True when its value is empty
LegacySource(t) == IF t.prev_task = Absent THEN FALSE ELSE t.prev_task = Empty

\* _load_config, line 119: tasks[i]['prev_task'] of the task at the position
\* of a worker that is no source; a KeyError when the key is absent
LegacyKeyError(tasks) ==
    \E i \in DOMAIN tasks : ~LegacySource(tasks[i]) /\ tasks[i].prev_task = Absent

\* a lookup that reads the prev_task of the following task
PrevAtShifted(tasks, i) == tasks[(i % Len(tasks)) + 1].prev_task

\* _load_config, line 119: config['pipeline']['tasks'][i]['prev_task'], the
\* prev_task read by position for the worker at position i of 'workers',
\* which the first loop (lines 94-113) built from the task at position i
PrevAt(tasks, i) == tasks[i].prev_task

\* _load_config, lines 116-124: the 'next' of the worker at position p, one
\* name appended for every worker, in list order, that is no source and
\* whose task names p's name as prev_task
LegacyNext(tasks, p) ==
    LET idx == [i \in DOMAIN tasks |-> i]
        sel == SelectSeq(idx, LAMBDA i :
                   ~LegacySource(tasks[i]) /\ PrevAt(tasks, i) = tasks[p].name)
    IN  [k \in DOMAIN sel |-> tasks[sel[k]].name]

\* _load_config, lines 91-131: the legacy branch; any exception ends in the
\* handler of lines 135-137, which returns {}
Normalize(tasks) ==
    IF LegacyKeyError(tasks) THEN <<>>
    ELSE [i \in DOMAIN tasks |->
            Desc(tasks[i].name, tasks[i].worker_type, LegacySource(tasks[i]),
                 LegacyNext(tasks, i), tasks[i].queue_size)]

\* _load_config followed by self.config.get('workers', []) of setup(): a
\* missing or unreadable file gives {} (lines 73-76, 85-87, 135-137), a
\* document of neither shape is returned as it is
LoadConfig(doc) ==
    CASE doc.kind = "workers" -> doc.list
      [] doc.kind = "tasks" -> Normalize(doc.list)
      [] OTHER -> <<>>

\* ---------------------------------------------------------------- controller
\* the fields Pipeline.__init__ sets besides self.config
Fresh ==
    /\ workers = <<>>
    /\ processes = <<>>
    /\ queues = <<>>
    /\ input_queue = [n \in Names |-> None]
    /\ output_queues = [n \in Names |-> <<>>]
    /\ stop_site = "none"
    /\ stop_targets = <<>>
    /\ timed_out = FALSE
    /\ stop_ret = "none"
    /\ result = "none"
    /\ forced = {}
    /\ interrupts = 0
    /\ wst = [n \in Names |-> "none"]
    /\ cur = [n \in Names |-> STOP]
    /\ oi = [n \in Names |-> 1]
    /\ runs = [n \in Names |-> 0]
    /\ faults = 0
    /\ enq = [n \in Names |-> <<>>]
    /\ seen = [n \in Names |-> <<>>]
    /\ ran = [n \in Names |-> <<>>]
    /\ stop_calls = 0
    /\ loop_crash = {}
    /\ fwd = [n \in Names |-> <<>>]
    /\ excs = [n \in Names |-> <<>>]
    /\ puts = [n \in Names |-> <<>>]
    /\ injected = [n \in Names |-> 0]
    /\ buffer = [f \in Files |-> <<>>]
    /\ written = [f \in Files |-> <<>>]
    /\ arrived = [f \in Files |-> <<>>]
    /\ fpc = "idle"
    /\ fitem = [k \in FileKeys |-> "absent"]
    /\ fi = 1
    /\ fn = 0
    /\ ffails = 0

\* the state after Pipeline.__init__: the configuration is loaded
Constructed ==
    /\ config = LoadConfig(document)
    /\ cpc = "setup"
    /\ Fresh

Init == document \in Documents /\ Constructed

\* Pipeline.__init__, line 38: self.config = self._load_config(config_file)
load_config ==
    /\ cpc = "construct"
    /\ config' = LoadConfig(document)
    /\ cpc' = "setup"
    /\ UNCHANGED <<fvars, document, workers, processes, input_queue, output_queues>>
    /\ UNCHANGED <<stop_site, stop_targets, timed_out, stop_ret, result, forced,
                   interrupts, stop_calls>>
    /\ UNCHANGED <<wvars, qvars>>

\* as SetupQueues, but with a queue for the sources too
SetupQueuesAll(cfg) ==
    [n \in {cfg[i].name : i \in DOMAIN cfg} |-> <<>>]

\* setup(), first pass: one input queue per descriptor that is not a source
SetupQueues(cfg) ==
    [n \in {cfg[i].name : i \in {j \in DOMAIN cfg : ~cfg[j].source}} |-> <<>>]

\* setup(), lines 189-217: the type is found in worker_registry or imports
\* as a dotted path
Resolves(d) == d.type \in ResolvableTypes

\* a setup() that swallows what a constructor raises
FirstRaiseNone(cfg) == 0

\* setup(), lines 275-284: position of the first descriptor whose worker
\* raises when constructed (PipelineWorker.__init__ re-raises what
\* initialize(**kwargs) raises), 0 if there is none
FirstRaise(cfg) ==
    LET bad == {i \in DOMAIN cfg : Resolves(cfg[i]) /\ ~cfg[i].kwargs_ok}
    IN  IF bad = {} THEN 0 ELSE CHOOSE i \in bad : \A j \in bad : i <= j

\* setup(), second pass: a descriptor whose type does not resolve is skipped
\* (continue); the others are registered in descriptor order, up to the
\* first whose construction raises
SetupWorkers(cfg) ==
    LET n == IF FirstRaise(cfg) = 0 THEN Len(cfg) ELSE FirstRaise(cfg) - 1
        ok == SelectSeq(SubSeq(cfg, 1, n), Resolves)
    IN  [i \in DOMAIN ok |-> ok[i].name]

\* setup(), second pass: output_queues holds the input queue of every name
\* of 'next' that owns one; the others are dropped with a warning
SetupOutputs(cfg, qs, n) ==
    LET d == CHOOSE d \in Range(cfg) : d.name = n
    IN  SelectSeq(d.next, LAMBDA nn : nn \in DOMAIN qs)

SetupInput(cfg, n) ==
    LET d == CHOOSE d \in Range(cfg) : d.name = n
    IN  IF d.source THEN None ELSE n

\* a run() that goes on to start() after setup() returned False
OnSetupFalseGoOn == "start"

\* run(), lines 374-377: where run() is after setup() returned False
OnSetupFalse == "setup_failed"

\* run(), lines 374-377: "if not self.setup(): return False".  setup()
\* returns False from its handler (lines 292-294) when a constructor raised,
\* True otherwise (line 291)
setup ==
    /\ cpc = "setup"
    /\ queues' = SetupQueues(config)
    /\ workers' = SetupWorkers(config)
    /\ input_queue' = [n \in Names |->
          IF n \in Range(SetupWorkers(config)) THEN SetupInput(config, n) ELSE None]
    /\ output_queues' = [n \in Names |->
          IF n \in Range(SetupWorkers(config))
          THEN SetupOutputs(config, SetupQueues(config), n) ELSE <<>>]
    /\ IF FirstRaise(config) = 0
       THEN /\ cpc' = "start"
            /\ UNCHANGED result
       ELSE /\ cpc' = OnSetupFalse
            /\ result' = "False"
    /\ UNCHANGED <<fvars, document, config, processes, enq, injected, wvars>>
    /\ UNCHANGED <<stop_site, stop_targets, timed_out, stop_ret, forced,
                   interrupts, stop_calls>>

\* start(), lines 304-317: one process per registered worker, target
\* worker._run, entered in self.processes after process.start() returned.
\* process.start() of the worker after the first k may raise (no process or
\* memory left): start() returns False from its handler, and run() returns
\* False at lines 379-382
start ==
    /\ cpc = "start"
    /\ \E k \in 0..Len(workers) :
        /\ processes' = SubSeq(workers, 1, k)
        /\ wst' = [n \in Names |->
              IF n \in Range(SubSeq(workers, 1, k)) THEN "startup" ELSE "none"]
        /\ IF k = Len(workers)
           THEN /\ cpc' = "check_dead"
                /\ UNCHANGED <<result, faults>>
           ELSE /\ faults < MaxFaults
                /\ faults' = faults + 1
                /\ cpc' = "start_failed"
                /\ result' = "False"
    /\ UNCHANGED <<fvars, document, config, workers, input_queue, output_queues, qvars>>
    /\ UNCHANGED <<puts, cur, oi, runs, seen, ran, loop_crash, fwd, excs>>
    /\ UNCHANGED <<stop_site, stop_targets, timed_out, stop_ret, forced,
                   interrupts, stop_calls>>

\* a stop() that puts a 'STOP' on every input queue
StopTargetsEvery == SelectSeq(workers, LAMBDA w : w \in DOMAIN queues)

\* stop(), lines 329-339: for every source worker, the queues "q_in_" + next
\* of the descriptors carrying its name that exist in self.queues
StopTargets ==
    Flatten([i \in DOMAIN workers |->
        IF IsSource(workers[i])
        THEN Flatten([j \in DOMAIN config |->
                IF config[j].name = workers[i]
                THEN SelectSeq(config[j].next, LAMBDA nn : nn \in DOMAIN queues)
                ELSE <<>>])
        ELSE <<>>])

\* a call of self.stop() made by run() at the given site
EnterStop(site) ==
    /\ cpc' = "stop_put"
    /\ stop_site' = site
    /\ stop_targets' = StopTargets
    /\ stop_calls' = stop_calls + 1
    /\ UNCHANGED <<timed_out, stop_ret, result, forced>>

\* run(), lines 388-393: some process is not alive -> stop(), return False
run_check_dead ==
    /\ cpc = "check_dead"
    /\ IF \E p \in Range(processes) : ~is_alive(p)
       THEN EnterStop("dead")
       ELSE /\ cpc' = "check_sources"
            /\ UNCHANGED <<stop_site, stop_targets, timed_out, stop_ret, result,
                           forced, stop_calls>>
    /\ UNCHANGED <<interrupts, svars, wvars, qvars>>

\* run(), lines 396-410: every source process is dead -> stop(), break,
\* return True; otherwise sleep(1) and loop
run_check_sources ==
    /\ cpc = "check_sources"
    /\ IF \A w \in Range(workers) : IsSource(w) => ~is_alive(w)
       THEN EnterStop("done")
       ELSE /\ cpc' = "check_dead"
            /\ UNCHANGED <<stop_site, stop_targets, timed_out, stop_ret, result,
                           forced, stop_calls>>
    /\ UNCHANGED <<interrupts, svars, wvars, qvars>>

\* run(), lines 413-416: KeyboardInterrupt inside the inner try (the loop, or
\* a stop() called from the loop) -> stop(), return False.  Raised inside the
\* handler's own stop() it leaves run() as an exception.
KeyboardInterrupt ==
    /\ interrupts < MaxInterrupts
    /\ cpc \in {"check_dead", "check_sources", "stop_put", "stop_wait", "stop_kill"}
    /\ interrupts' = interrupts + 1
    /\ IF stop_site = "interrupt"
       THEN /\ cpc' = "returned"
            /\ result' = "raised"
            /\ UNCHANGED <<stop_site, stop_targets, timed_out, stop_ret, forced,
                           stop_calls>>
       ELSE EnterStop("interrupt")
    /\ UNCHANGED <<svars, wvars, qvars>>

\* __exit__, line 440: self.stop() once more, after a run() that has
\* stopped the pipeline has returned
exit_stop ==
    /\ cpc = "returned"
    /\ result # "raised"
    /\ EnterStop("exit")
    /\ UNCHANGED <<interrupts, svars, wvars, qvars>>

\* stop(), line 338: self.queues[queue_name].put('STOP'), blocking while full
stop_put ==
    /\ cpc = "stop_put"
    /\ stop_targets # <<>>
    /\ ~Full(Head(stop_targets))
    /\ queues' = [queues EXCEPT ![Head(stop_targets)] = Append(@, STOP)]
    /\ enq' = [enq EXCEPT ![Head(stop_targets)] = Append(@, STOP)]
    /\ injected' = [injected EXCEPT ![Head(stop_targets)] = @ + 1]
    /\ stop_targets' = Tail(stop_targets)
    /\ UNCHANGED <<cpc, stop_site, timed_out, stop_ret, result, forced,
                   interrupts, stop_calls>>
    /\ UNCHANGED <<svars, wvars>>

\* stop(), lines 342-343: all tokens sent, start_time = time.time()
stop_sent ==
    /\ cpc = "stop_put"
    /\ stop_targets = <<>>
    /\ cpc' = "stop_wait"
    /\ timed_out' = FALSE
    /\ UNCHANGED <<stop_site, stop_targets, stop_ret, result, forced,
                   interrupts, stop_calls>>
    /\ UNCHANGED <<svars, wvars, qvars>>

\* stop(), lines 344-351: one turn of the polling loop
stop_poll ==
    /\ cpc = "stop_wait"
    /\ IF ~timed_out /\ (\E p \in Range(processes) : is_alive(p))
       THEN cpc' = cpc
       ELSE cpc' = "stop_kill"
    /\ UNCHANGED timed_out
    /\ UNCHANGED <<stop_site, stop_targets, stop_ret, result, forced,
                   interrupts, stop_calls>>
    /\ UNCHANGED <<svars, wvars, qvars>>

\* stop(), line 344: the 30 seconds of the grace period (timeout = 30) have
\* passed since start_time
clock_expires ==
    /\ cpc = "stop_wait"
    /\ ~timed_out
    /\ timed_out' = TRUE
    /\ UNCHANGED <<cpc, stop_site, stop_targets, stop_ret, result, forced,
                   interrupts, stop_calls>>
    /\ UNCHANGED <<svars, wvars, qvars>>

\* a run() that reports success wherever stop() was called from
RunResultTrue(site) == "True"

\* what run() returns after the stop() called at a site returned
RunResult(site) == IF site = "done" THEN "True" ELSE "False"

\* as StillAlive, but a source process is never terminated
StillAliveStagesOnly == {p \in Range(processes) : is_alive(p) /\ ~IsSource(p)}

\* stop(), lines 354-357: the processes whose is_alive() is true;
\* terminate() sends them SIGTERM, for which no worker installs a handler
StillAlive == {p \in Range(processes) : is_alive(p)}

\* stop(), lines 354-360: terminate() whatever is alive, return True;
\* then run() returns
stop_kill ==
    /\ cpc = "stop_kill"
    /\ forced' = forced \cup StillAlive
    /\ wst' = [n \in Names |-> IF n \in StillAlive THEN "terminated" ELSE wst[n]]
    /\ cur' = [n \in Names |-> IF n \in StillAlive THEN STOP ELSE cur[n]]
    /\ oi' = [n \in Names |-> IF n \in StillAlive THEN 1 ELSE oi[n]]
    /\ stop_ret' = "True"
    /\ IF stop_site = "exit"
       THEN cpc' = "closed" /\ UNCHANGED result
       ELSE cpc' = "returned" /\ result' = RunResult(stop_site)
    /\ UNCHANGED <<stop_site, stop_targets, timed_out, interrupts, stop_calls>>
    /\ UNCHANGED <<puts, runs, faults, seen, ran, loop_crash, fwd, excs>>
    /\ UNCHANGED <<svars, qvars>>

\* ------------------------------------------------------------------- workers
cunch == UNCHANGED <<cvars, svars>>

\* _run, line 112: self.startup() returns
worker_startup(w) ==
    /\ wst[w] = "startup"
    /\ wst' = [wst EXCEPT ![w] = "loop"]
    /\ UNCHANGED <<puts, cur, oi, runs, faults, seen, ran, loop_crash, fwd, excs, qvars>>
    /\ cunch

\* _run, lines 112, 143-148: self.startup() raises -> "Fatal error", finally
startup_raises(w) ==
    /\ wst[w] = "startup"
    /\ faults < MaxFaults
    /\ faults' = faults + 1
    /\ wst' = [wst EXCEPT ![w] = "shutdown"]
    /\ excs' = [excs EXCEPT ![w] = Append(@, "startup")]
    /\ UNCHANGED puts
    /\ UNCHANGED <<cur, oi, runs, seen, ran, loop_crash, fwd, qvars>>
    /\ cunch

\* _run, lines 117-119: the source loop calls self.run(None), which builds
\* its first item and calls done_with_item(item)
\* (read_frames_from_vid_files_in_dir.py:106-120); with no output queue
\* nothing blocks and run(None) returns
source_run(w) ==
    /\ wst[w] = "loop"
    /\ IsSource(w)
    /\ runs[w] < MaxRuns
    /\ runs' = [runs EXCEPT ![w] = @ + 1]
    /\ IF output_queues[w] = <<>>
       THEN UNCHANGED <<wst, cur>>
       ELSE /\ wst' = [wst EXCEPT ![w] = "put"]
            /\ cur' = [cur EXCEPT ![w] = 1]
    /\ UNCHANGED <<puts, oi, faults, seen, ran, loop_crash, fwd, excs, qvars>>
    /\ cunch

\* as OnSourceRaise, but the exception ends the loop
OnSourceRaiseExit(w) == "shutdown"

\* _run, lines 120-123: where the handler of the source loop leaves the
\* worker: back at "while True"
OnSourceRaise(w) == "loop"

\* _run, lines 120-123: run(None) raises an Exception: logged, sleep(1), loop.
\* The exception comes from the worker's own code, between two calls of
\* done_with_item: the puts of one call are not interrupted by it
source_raises(w) ==
    /\ wst[w] = "put"
    /\ oi[w] = 1
    /\ IsSource(w)
    /\ faults < MaxFaults
    /\ faults' = faults + 1
    /\ wst' = [wst EXCEPT ![w] = OnSourceRaise(w)]
    /\ excs' = [excs EXCEPT ![w] = Append(@, "run")]
    /\ UNCHANGED puts
    /\ cur' = [cur EXCEPT ![w] = STOP]
    /\ oi' = [oi EXCEPT ![w] = 1]
    /\ UNCHANGED <<runs, seen, ran, loop_crash, fwd, qvars>>
    /\ cunch

\* run(None) ends the process on its own by raising SystemExit, which is no
\* Exception: not caught at line 120 nor 143, the finally clause runs.  As
\* any exception of run(None) it is raised between two done_with_item calls
source_exits(w) ==
    /\ wst[w] = "put"
    /\ oi[w] = 1
    /\ IsSource(w)
    /\ wst' = [wst EXCEPT ![w] = "shutdown"]
    /\ cur' = [cur EXCEPT ![w] = STOP]
    /\ oi' = [oi EXCEPT ![w] = 1]
    /\ UNCHANGED <<puts, runs, faults, seen, ran, loop_crash, fwd, excs, qvars>>
    /\ cunch

\* as QueueGet, but the newest message
QueueGetNewest(q) == q[Len(q)]

\* Queue.get(): the oldest message
QueueGet(q) == Head(q)

\* how run(item) of a stage ends: it calls done_with_item(item)
\* (generic_worker.py:40-57), raises, or never returns
Outcomes == {"ok", "raise", "hang"}

\* as OnStop, but the token is never forwarded
OnStopSkip(w) == "shutdown"

\* as OnStop, but the stage stays in its loop
OnStopStay(w) == "loop"

\* _run, lines 131-135: where a stage that got 'STOP' goes next: the loop
\* "for queue in self.output_queues" when there is a queue, else the break
OnStop(w) == IF output_queues[w] = <<>> THEN "shutdown" ELSE "forward"

\* as OnRaise, but the exception ends the loop
OnRaiseExit(w) == "shutdown"

\* _run, lines 140-142: where the handler inside the stage loop leaves the
\* worker: back at "while True", at the next get()
OnRaise(w) == "loop"

\* _run, lines 128-142: item = self.input_queue.get(), blocking while empty;
\* 'STOP' -> forward it and break; otherwise self.run(item), whose exception
\* is logged before the loop continues
worker_get(w) ==
    /\ wst[w] = "loop"
    /\ ~IsSource(w)
    /\ queues[w] # <<>>
    /\ LET item == QueueGet(queues[w]) IN
        /\ queues' = [queues EXCEPT ![w] = Tail(@)]
        /\ seen' = [seen EXCEPT ![w] = Append(@, item)]
        /\ IF item = STOP
           THEN /\ wst' = [wst EXCEPT ![w] = OnStop(w)]
                /\ UNCHANGED <<cur, ran, faults, excs>>
           ELSE /\ ran' = [ran EXCEPT ![w] = Append(@, item)]
                /\ \E o \in Outcomes :
                    /\ o # "ok" => faults < MaxFaults
                    /\ faults' = IF o = "ok" THEN faults ELSE faults + 1
                    /\ wst' = [wst EXCEPT ![w] =
                          CASE o = "hang" -> "hung"
                            [] o = "raise" -> OnRaise(w)
                            [] OTHER -> IF output_queues[w] = <<>>
                                        THEN "loop" ELSE "put"]
                    /\ cur' = [cur EXCEPT ![w] =
                          IF o = "ok" /\ output_queues[w] # <<>>
                          THEN item ELSE STOP]
                    /\ excs' = [excs EXCEPT ![w] =
                          IF o = "raise" THEN Append(@, "run") ELSE @]
    /\ UNCHANGED <<puts, oi, runs, enq, injected, loop_crash, fwd>>
    /\ cunch

\* a done_with_item that puts every copy on the first output queue
PutTargetFirst(w) == output_queues[w][1]

\* done_with_item, lines 100-101: "for queue in self.output_queues": the
\* queue the loop has come to
PutTarget(w) == output_queues[w][oi[w]]

\* done_with_item, lines 100-101: queue.put(item) on the next output queue,
\* blocking while it is full.  After the last queue a stage's run(item)
\* returns to the loop; a source builds its next item, or run(None) returns
\* to the "while True" of line 117 when it has none left
done_with_item(w) ==
    /\ wst[w] = "put"
    /\ LET q == PutTarget(w) IN
        /\ ~Full(q)
        /\ queues' = [queues EXCEPT ![q] = Append(@, cur[w])]
        /\ enq' = [enq EXCEPT ![q] = Append(@, cur[w])]
        /\ puts' = [puts EXCEPT ![w] = Append(@, <<q, cur[w]>>)]
    /\ IF oi[w] < Len(output_queues[w])
       THEN /\ oi' = [oi EXCEPT ![w] = @ + 1]
            /\ UNCHANGED <<wst, cur>>
       ELSE /\ oi' = [oi EXCEPT ![w] = 1]
            /\ IF IsSource(w) /\ cur[w] < NItems
               THEN /\ cur' = [cur EXCEPT ![w] = @ + 1]
                    /\ UNCHANGED wst
               ELSE /\ cur' = [cur EXCEPT ![w] = STOP]
                    /\ wst' = [wst EXCEPT ![w] = "loop"]
    /\ UNCHANGED <<runs, faults, seen, ran, loop_crash, fwd, excs, injected>>
    /\ cunch

\* _run, lines 133-135: queue.put('STOP') on the next output queue; after
\* the last one break, on to the finally clause
forward_stop(w) ==
    /\ wst[w] = "forward"
    /\ LET q == output_queues[w][oi[w]] IN
        /\ ~Full(q)
        /\ queues' = [queues EXCEPT ![q] = Append(@, STOP)]
        /\ enq' = [enq EXCEPT ![q] = Append(@, STOP)]
        /\ fwd' = [fwd EXCEPT ![w] = Append(@, q)]
    /\ IF oi[w] < Len(output_queues[w])
       THEN /\ oi' = [oi EXCEPT ![w] = @ + 1]
            /\ UNCHANGED wst
       ELSE /\ oi' = [oi EXCEPT ![w] = 1]
            /\ wst' = [wst EXCEPT ![w] = "shutdown"]
    /\ UNCHANGED <<puts, cur, runs, faults, seen, ran, loop_crash, excs, injected>>
    /\ cunch

\* _run, lines 145-150: self.shutdown() (its exceptions are caught), then
\* the target returns and the process ends
worker_shutdown(w) ==
    /\ wst[w] = "shutdown"
    /\ wst' = [wst EXCEPT ![w] = "exited"]
    /\ UNCHANGED <<puts, cur, oi, runs, faults, seen, ran, loop_crash, fwd, excs, qvars>>
    /\ cunch

\* the process dies (killed, out of memory, fault in native code): no
\* handler and no finally clause runs
crash(w) ==
    /\ is_alive(w)
    /\ faults < MaxFaults
    /\ faults' = faults + 1
    /\ wst' = [wst EXCEPT ![w] = "crashed"]
    /\ cur' = [cur EXCEPT ![w] = STOP]
    /\ oi' = [oi EXCEPT ![w] = 1]
    /\ loop_crash' = IF cpc \in {"check_dead", "check_sources"}
                     THEN loop_crash \cup {w} ELSE loop_crash
    /\ UNCHANGED <<puts, runs, seen, ran, fwd, excs, qvars>>
    /\ cunch

Controller ==
    \/ setup
    \/ start
    \/ run_check_dead
    \/ run_check_sources
    \/ KeyboardInterrupt
    \/ stop_put
    \/ stop_sent
    \/ stop_poll
    \/ clock_expires
    \/ stop_kill

Worker(w) ==
    \/ worker_startup(w)
    \/ startup_raises(w)
    \/ source_run(w)
    \/ source_raises(w)
    \/ source_exits(w)
    \/ worker_get(w)
    \/ done_with_item(w)
    \/ forward_stop(w)
    \/ worker_shutdown(w)
    \/ crash(w)

Next == Controller \/ \E w \in Names : Worker(w)

Spec == Init /\ [][Next]_vars

InitLinear == Init /\ config = LinearConfig
SpecLinear == InitLinear /\ [][Next]_vars
InitFanIn == document = Doc("workers", FanInConfig) /\ Constructed
InitFanOut == document = Doc("workers", FanOutConfig) /\ Constructed
InitOrphan == Init /\ config = OrphanConfig
InitStop ==
    /\ document \in {Doc("workers", c) :
                        c \in {FanOutConfig, DanglingNextConfig}}
    /\ Constructed
InitRegistry == document \in RegistryDocuments /\ Constructed
SpecOrphan == InitOrphan /\ [][Next]_vars

\* the runs on the documents setup() is specified to reject
InitSetup == document \in SetupDocuments /\ Constructed
SpecSetup == InitSetup /\ [][Next]_vars

\* _load_config alone, applied to every legacy document
InitLoad ==
    /\ document \in LegacyDocuments
    /\ config = <<>>
    /\ cpc = "construct"
    /\ Fresh
InitLoadNamed ==
    /\ document \in {Doc("tasks", l) : l \in NamedTasks}
    /\ config = <<>>
    /\ cpc = "construct"
    /\ Fresh
NextLoad == load_config
SpecLoad == InitLoad /\ [][NextLoad]_vars
SpecLoadNamed == InitLoadNamed /\ [][NextLoad]_vars

\* ---------------------------------------------------------- WriteKeysToFiles
\* the variables of the pipeline, which the stage's own methods leave alone
pvars == <<cvars, document, config, workers, processes, input_queue,
           output_queues, wvars, qvars>>

\* a write that leaves the lines it wrote in the buffer
AfterWriteKeep(b, ok) == b

\* _write_buffer_to_file, lines 158-163: self.buffer[filename] = [] after the
\* 'with' block; in the handler the buffer is not touched
AfterWrite(b, ok) == IF ok THEN <<>> ELSE b

\* _write_buffer_to_file, lines 149-163, on the buffer b of file f: open and
\* writelines succeed, or an exception ends the attempt after the first k
\* lines reached the file (k = 0: open failed)
WriteBuffer(f, b) ==
    \E ok \in BOOLEAN : \E k \in 0 .. Len(b) :
        /\ ok => k = Len(b)
        /\ ~ok => ffails < MaxFaults
        /\ written' = [written EXCEPT ![f] = @ \o SubSeq(b, 1, k)]
        /\ buffer' = [buffer EXCEPT ![f] = AfterWrite(b, ok)]
        /\ ffails' = IF ok THEN ffails ELSE ffails + 1

\* _run, line 138: self.run(item) is called with the next item
writer_run(it) ==
    /\ fpc = "idle"
    /\ fn < MaxCalls
    /\ fn' = fn + 1
    /\ fitem' = it
    /\ fi' = 1
    /\ fpc' = "pairs"
    /\ UNCHANGED <<buffer, written, arrived, ffails, pvars>>

\* run, lines 68-83: one turn of the loop over key_file_pairs: a key the
\* item lacks is skipped; otherwise the line make_string built, if any, is
\* appended to the file's buffer, and the buffer is written out when it
\* holds buffer_size lines or more
writer_pair ==
    /\ fpc = "pairs"
    /\ fi <= Len(key_file_pairs)
    /\ LET key == key_file_pairs[fi][1]
           f == key_file_pairs[fi][2]
           b == IF fitem[key] = "data"
                THEN Append(buffer[f], <<fn, key>>) ELSE buffer[f]
       IN  IF fitem[key] = "absent"
           THEN UNCHANGED <<buffer, written, arrived, ffails>>
           ELSE /\ arrived' = [arrived EXCEPT ![f] =
                       IF fitem[key] = "data" THEN Append(@, <<fn, key>>) ELSE @]
                /\ IF Len(b) >= buffer_size
                   THEN WriteBuffer(f, b)
                   ELSE /\ buffer' = [buffer EXCEPT ![f] = b]
                        /\ UNCHANGED <<written, ffails>>
    /\ fi' = fi + 1
    /\ UNCHANGED <<fpc, fitem, fn, pvars>>

\* run, line 86: after the last pair, done_with_item(item); run returns
writer_run_returns ==
    /\ fpc = "pairs"
    /\ fi > Len(key_file_pairs)
    /\ fpc' = "idle"
    /\ fi' = 1
    /\ UNCHANGED <<buffer, written, arrived, fitem, fn, ffails, pvars>>

\* shutdown, line 91: self.close_files()
writer_shutdown ==
    /\ fpc = "idle"
    /\ fpc' = "closing"
    /\ fi' = 1
    /\ UNCHANGED <<buffer, written, arrived, fitem, fn, ffails, pvars>>

\* close_files, lines 97-99: one turn of the loop over the buffers: a buffer
\* that is not empty is written out
writer_close ==
    /\ fpc = "closing"
    /\ fi <= Len(FileOrder)
    /\ IF buffer[FileOrder[fi]] # <<>>
       THEN WriteBuffer(FileOrder[fi], buffer[FileOrder[fi]])
       ELSE UNCHANGED <<buffer, written, ffails>>
    /\ fi' = fi + 1
    /\ UNCHANGED <<arrived, fpc, fitem, fn, pvars>>

\* close_files, lines 101-104, and the return of shutdown
writer_closed ==
    /\ fpc = "closing"
    /\ fi > Len(FileOrder)
    /\ fpc' = "down"
    /\ UNCHANGED <<buffer, written, arrived, fitem, fi, fn, ffails, pvars>>

WriterNext ==
    \/ \E it \in ItemKinds : writer_run(it)
    \/ writer_pair
    \/ writer_run_returns
    \/ writer_shutdown
    \/ writer_close
    \/ writer_closed

\* the WriteKeysToFiles stage alone: run(item) calls, then shutdown()
WriterSpec == InitLinear /\ [][WriterNext]_vars

\* ----------------------------------------------------------------- fairness
\* the controller's own steps; time passes, so the grace period ends
ControllerStep ==
    \/ setup
    \/ start
    \/ run_check_dead
    \/ run_check_sources
    \/ stop_put
    \/ stop_sent
    \/ stop_poll
    \/ clock_expires
    \/ stop_kill

\* the steps a scheduled worker process takes when it is not blocked
WorkerStep(w) ==
    \/ worker_startup(w)
    \/ source_run(w)
    \/ worker_get(w)
    \/ done_with_item(w)
    \/ forward_stop(w)
    \/ worker_shutdown(w)

Fairness == WF_vars(ControllerStep) /\ \A w \in Names : WF_vars(WorkerStep(w))

FairSpec == Spec /\ Fairness
FairSpecLinear == SpecLinear /\ Fairness

\* the runs that no KeyboardInterrupt reaches
SupervisedNext == ControllerStep \/ \E w \in Names : Worker(w)

SupervisedSpec == Init /\ [][SupervisedNext]_vars

\* the same supervision over the documents of SetupDocuments
SupervisedSetupSpec == InitSetup /\ [][SupervisedNext]_vars

\* the same supervision inside 'with Pipeline(...) as p: p.run()'
ExitNext == SupervisedNext \/ exit_stop

ExitSpec == Init /\ [][ExitNext]_vars

\* the same supervision of a source with two successors and of a chain
\* whose source also names a worker that does not exist
StopSpec == InitStop /\ [][SupervisedNext]_vars

\* the same supervision over the documents of RegistryDocuments
RegistrySpec == InitRegistry /\ [][SupervisedNext]_vars


\* the controller's steps but for the end of the grace period: how long the
\* workers take to drain against the 30 seconds is left open
PatientStep ==
    \/ setup
    \/ start
    \/ run_check_dead
    \/ run_check_sources
    \/ stop_put
    \/ stop_sent
    \/ stop_poll
    \/ stop_kill

PatientFairness == WF_vars(PatientStep) /\ \A w \in Names : WF_vars(WorkerStep(w))

\* _run, lines 128-138: get() and a run(item) that returns normally
worker_get_ok(w) == worker_get(w) /\ faults' = faults

\* the steps of a worker process in a run where nothing crashes, hangs or
\* raises
DrainWorker(w) ==
    \/ worker_startup(w)
    \/ source_run(w)
    \/ source_exits(w)
    \/ worker_get_ok(w)
    \/ done_with_item(w)
    \/ forward_stop(w)
    \/ worker_shutdown(w)

DrainNext == Controller \/ \E w \in Names : DrainWorker(w)

DrainSpec == Init /\ [][DrainNext]_vars /\ PatientFairness

\* the steps of a worker process of the fan-out graph, where no stage has
\* an output queue to forward the 'STOP' to
FanOutWorker(w) ==
    \/ worker_startup(w)
    \/ startup_raises(w)
    \/ source_run(w)
    \/ source_raises(w)
    \/ source_exits(w)
    \/ worker_get(w)
    \/ done_with_item(w)
    \/ worker_shutdown(w)
    \/ crash(w)

\* the fan-out graph in the runs that no KeyboardInterrupt reaches
FanOutNext == ControllerStep \/ \E w \in Names : FanOutWorker(w)

FanOutSpec == InitFanOut /\ [][FanOutNext]_vars

\* the fan-in graph, where the only stage is a sink as well
SpecFanIn == InitFanIn /\ [][FanOutNext]_vars

\* ------------------------------------------------------------------- claims
Sources == {w \in Range(workers) : IsSource(w)}
Stages == {w \in Range(workers) : ~IsSource(w)}

RECURSIVE CountStop(_)
CountStop(s) ==
    IF s = <<>> THEN 0
    ELSE (IF Head(s) = STOP THEN 1 ELSE 0) + CountStop(Tail(s))

\* the messages of s in front of its first 'STOP' (all of s if it has none)
RECURSIVE BeforeStop(_)
BeforeStop(s) ==
    IF s = <<>> \/ Head(s) = STOP THEN <<>>
    ELSE <<Head(s)>> \o BeforeStop(Tail(s))

\* C1: when run() has returned after every source process exited on its own
\* (no crash, no hang, no exception, no interrupt) and the other workers
\* were drained without forcing, the result is True.
C1_SourcesDoneIsSuccess ==
    ( /\ cpc = "returned"
      /\ faults = 0
      /\ interrupts = 0
      /\ forced = {}
      /\ Sources # {}
      /\ \A w \in Sources : wst[w] = "exited" )
    => result = "True"

\* C2: a source whose run(None) returned normally is exhausted, so without
\* an exception run(None) is called at most once per source.
C2_RunNotInvokedAgain ==
    faults = 0 => \A w \in Names : runs[w] <= 1

\* C3: run() never returns success when a worker process crashed while the
\* supervision loop was active and stop() had not been called.
C3_CrashIsFailure ==
    (cpc = "returned" /\ loop_crash # {}) => result = "False"

\* C4: every call of stop() returns: once stop() has begun, run() gets to
\* its return.
C4_StopReturns ==
    (cpc = "stop_put") ~> (cpc = "returned")

\* C5: stop() returns True only if it force-terminated no process.
C5_StopTrueOnlyUnforced ==
    stop_ret = "True" => forced = {}

\* C6: run() returns True only if the final stop() force-terminated nothing.
C6_RunTrueOnlyUnforced ==
    result = "True" => forced = {}

C8_ExactlyOneStop ==
    \A w \in Stages :
        /\ CountStop(enq[w]) <= 1
        /\ (cpc = "returned" /\ result # "raised") => CountStop(enq[w]) = 1

\* C9: a worker that has observed the 'STOP' has been passed, by then, every
\* item put on its queue in front of the token, once each and in the order
\* of the puts; what it got and what is left is what was put.
C9_ItemsBeforeToken ==
    \A w \in DOMAIN queues :
        /\ seen[w] \o queues[w] = enq[w]
        /\ STOP \in Range(seen[w]) => ran[w] = BeforeStop(enq[w])

\* C9 witness: a worker observed the token after two items or more
C9_Witness ==
    \E w \in DOMAIN queues :
        STOP \in Range(seen[w]) /\ Len(ran[w]) >= 2 /\ wst[w] = "exited"

\* C10: in A(source) -> B -> C, when A's run(None) emits 1,2,3 and nothing
\* fails, C observes 1,2,3 and then the 'STOP'; and B puts the token on C's
\* queue only after having got its own.
C10_LinearObserves ==
    /\ ( /\ config = LinearConfig
         /\ faults = 0
         /\ interrupts = 0
         /\ Len(BeforeStop(enq["B"])) >= 3
         /\ STOP \in Range(seen["C"]) )
       => seen["C"] = <<1, 2, 3, STOP>>
    /\ (config = LinearConfig /\ STOP \in Range(enq["C"]))
       => STOP \in Range(seen["B"])

\* s is an initial segment of t
IsPrefix(s, t) ==
    /\ Len(s) <= Len(t)
    /\ \A i \in DOMAIN s : s[i] = t[i]

\* the number of times the name q occurs in the sequence s
RECURSIVE Occurs(_, _)
Occurs(q, s) ==
    IF s = <<>> THEN 0
    ELSE (IF Head(s) = q THEN 1 ELSE 0) + Occurs(q, Tail(s))

\* the number of 'STOP' the workers of the set W forwarded to the queue q
RECURSIVE Forwarded(_, _)
Forwarded(q, W) ==
    IF W = {} THEN 0
    ELSE LET w == CHOOSE w \in W : TRUE
         IN  Occurs(q, fwd[w]) + Forwarded(q, W \ {w})

RECURSIVE Reach(_)
Reach(S) ==
    LET T == S \cup {n \in Names : \E w \in S : n \in Range(output_queues[w])}
    IN  IF T = S THEN S ELSE Reach(T)

\* the non-source workers in the downstream subgraph of the sources
Downstream == Reach(Sources) \ Sources

\* a worker process crashed, hangs inside run(), or ended on a fatal error
\* without having got the token
Failed(w) ==
    \/ wst[w] \in {"crashed", "hung"}
    \/ wst[w] \in {"shutdown", "exited"} /\ ~IsSource(w) /\ STOP \notin Range(seen[w])

\* every downstream worker got the token and went through shutdown() by
\* itself
DrainedUnforced ==
    \A w \in Downstream :
        /\ STOP \in Range(seen[w])
        /\ wst[w] = "exited"
        /\ w \notin forced

C13_NoItemAfterToken ==
    \A q \in Names : \A i, j \in DOMAIN enq[q] :
        (i < j /\ enq[q][i] = STOP) => enq[q][j] = STOP

\* C14: if some descriptor's type resolves neither in the registry nor as a
\* dotted path, setup() does not return True and no process is started.
C14_UnknownTypeFailsSetup ==
    (\E i \in DOMAIN config : ~Resolves(config[i]))
        => (cpc \in {"setup", "setup_failed"} /\ processes = <<>>)

\* some name of a 'next' list is not the name of a descriptor that owns an
\* input queue
Dangling(cfg) ==
    \E i \in DOMAIN cfg : \E k \in DOMAIN cfg[i].next :
        cfg[i].next[k] \notin {cfg[j].name : j \in {m \in DOMAIN cfg : ~cfg[m].source}}

\* C15: if a 'next' list names no worker of the graph that owns an input
\* queue, setup() does not return True.
C15_DanglingNextFailsSetup ==
    Dangling(config) => cpc \in {"setup", "setup_failed"}

\* C16: for a document that is missing, unreadable or of neither accepted
\* shape, setup() does not return True and run() does not return True.
C16_BadDocumentFails ==
    document.kind \in {"missing", "other"}
        => (cpc \in {"setup", "setup_failed"} /\ result # "True")

\* the canonical graph the legacy rules describe: a task without prev_task
\* (absent or empty) is a source; next holds, in list order, the names of the
\* tasks that name the worker as prev_task
Canonical(tasks) ==
    [i \in DOMAIN tasks |->
        Desc(tasks[i].name, tasks[i].worker_type,
             tasks[i].prev_task \in {Absent, Empty},
             LET idx == [j \in DOMAIN tasks |-> j]
                 sel == SelectSeq(idx, LAMBDA j : tasks[j].prev_task = tasks[i].name)
             IN  [k \in DOMAIN sel |-> tasks[sel[k]].name],
             tasks[i].queue_size)]

\* C17: _load_config turns a legacy task list into the canonical worker list
\* of the same graph: same names and types, source exactly for the tasks
\* whose prev_task is absent or empty, next edges from prev_task.
C17_LegacyEqualsCanonical ==
    (document.kind = "tasks" /\ cpc = "setup")
        => config = Canonical(document.list)

\* unique names, resolvable types, constructible workers, valid next edges
Valid(cfg) ==
    /\ \A i, j \in DOMAIN cfg : cfg[i].name = cfg[j].name => i = j
    /\ \A i \in DOMAIN cfg : Resolves(cfg[i]) /\ cfg[i].kwargs_ok
    /\ ~Dangling(cfg)

\* C18: for a valid graph setup() returns True having registered one worker
\* per descriptor, with one input queue per non-source worker and none for a
\* source, and each worker's output queues are the input queues of the
\* workers of its next list, in order.
C18_SetupBuildsGraph ==
    (Valid(config) /\ cpc # "setup") =>
        /\ cpc # "setup_failed"
        /\ workers = [i \in DOMAIN config |-> config[i].name]
        /\ DOMAIN queues = {config[i].name : i \in {j \in DOMAIN config : ~config[j].source}}
        /\ \A i \in DOMAIN config :
            /\ input_queue[config[i].name] =
                  IF config[i].source THEN None ELSE config[i].name
            /\ output_queues[config[i].name] = config[i].next

\* setup() has just returned True for a graph of three workers, two of them
\* with an input queue
C18_Witness ==
    /\ cpc = "start"
    /\ Valid(config)
    /\ Len(workers) = 3
    /\ Cardinality(DOMAIN queues) = 2

\* C19: when setup() has returned False no worker is left registered.
C19_FailedSetupLeavesNone ==
    cpc = "setup_failed" => workers = <<>>

\* C20: when start() has returned False and run() reported the failure, no
\* worker process is running.
C20_FailedStartLeavesNone ==
    cpc = "start_failed" => \A w \in Names : ~is_alive(w)

\* the place of a position of _run in the lifecycle: not launched, startup(),
\* the run loop, forwarding the token, shutdown(), ended; a process that
\* crashed or was terminated has left the lifecycle
Rank(st) ==
    CASE st = "none" -> 0
      [] st = "startup" -> 1
      [] st \in {"loop", "put", "hung"} -> 2
      [] st = "forward" -> 3
      [] st = "shutdown" -> 4
      [] st = "exited" -> 5
      [] OTHER -> 6

\* C21: every worker goes through its lifecycle in order.  Only a worker
\* setup() constructed is launched; before startup() has returned no run()
\* was called and nothing was dequeued; a worker that has observed 'STOP', or
\* is in or past shutdown(), is not in the run loop and calls run() no more;
\* no step takes a worker back (so startup() runs once), and an ended worker
\* stays ended.
C21_LifecycleInOrder ==
    /\ [](\A w \in Names :
            /\ wst[w] # "none" => w \in Range(workers)
            /\ wst[w] \in {"none", "startup"}
                   => runs[w] = 0 /\ ran[w] = <<>> /\ seen[w] = <<>>
            /\ STOP \in Range(seen[w]) => Rank(wst[w]) >= 3)
    /\ [][\A w \in Names :
            /\ Rank(wst'[w]) >= Rank(wst[w])
            /\ wst[w] = "exited" => wst'[w] = "exited"
            /\ (STOP \in Range(seen[w]) \/ Rank(wst[w]) >= 3)
                   => /\ ran'[w] = ran[w]
                      /\ runs'[w] = runs[w]
                      /\ wst'[w] # "put"]_vars

\* a stage that ran an item, then got the token and ended through shutdown()
C21_Witness ==
    \E w \in Names :
        /\ wst[w] = "exited"
        /\ ran[w] # <<>>
        /\ STOP \in Range(seen[w])

\* C22: every started worker whose process has ended went out through
\* shutdown(), whatever ended its loop (here: in the runs where no process
\* crashes, hangs or raises).
C22_ShutdownAlwaysInvoked ==
    faults = 0 =>
        \A w \in Range(processes) : ~is_alive(w) => wst[w] = "exited"

\* the items of a sequence of messages
Items(s) == SelectSeq(s, LAMBDA m : m # STOP)

\* the worker w takes a step in which run() raises an Exception
RunRaises(w) ==
    /\ Len(excs'[w]) = Len(excs[w]) + 1
    /\ excs'[w][Len(excs'[w])] = "run"

\* C23: when run(item) raises in a non-source worker the item is dropped and
\* the loop goes on: the step leaves the worker at the next get() with the
\* item off its queue, puts nothing on any queue, and the worker is alive;
\* every dequeued item is passed to run() once, and what the worker dequeued
\* followed by what its queue holds is what was put on the queue, in order.
C23_StageRaiseDropsItem ==
    /\ [](\A w \in Names : ~IsSource(w) =>
            /\ ran[w] = Items(seen[w])
            /\ w \in DOMAIN queues => enq[w] = seen[w] \o queues[w])
    /\ [][\A w \in Names : (~IsSource(w) /\ RunRaises(w)) =>
            /\ wst'[w] = "loop"
            /\ queues'[w] = Tail(queues[w])
            /\ enq' = enq]_vars

\* a stage in which run() raised went on, got the token and ended through
\* shutdown()
C23_Witness ==
    \E w \in Names :
        /\ ~IsSource(w)
        /\ "run" \in Range(excs[w])
        /\ Len(ran[w]) >= 2
        /\ STOP \in Range(seen[w])
        /\ wst[w] = "exited"

C25_StartupFailureEscalates ==
    /\ \A w \in Names : "startup" \in Range(excs[w])
           => runs[w] = 0 /\ ran[w] = <<>>
    /\ (cpc = "returned" /\ \E w \in Names : "startup" \in Range(excs[w]))
           => (stop_calls >= 1 /\ result # "True")

\* C26: when the constructor of some worker raises during setup() (its
\* initialize() raised), setup() has returned False without raising, run()
\* returns False, no process exists and no worker ever started.
C26_InitializeRaiseAbortsSetup ==
    (/\ cpc \notin {"construct", "setup"}
     /\ \E i \in DOMAIN config : Resolves(config[i]) /\ ~config[i].kwargs_ok)
        => /\ cpc = "setup_failed"
           /\ result = "False"
           /\ processes = <<>>
           /\ \A w \in Names : wst[w] = "none" /\ runs[w] = 0

C26_Witness ==
    /\ config = BadKwargsConfig
    /\ cpc = "setup_failed"
    /\ result = "False"

\* C27: once a KeyboardInterrupt arrived in the supervision loop of run(),
\* stop() has been called from the handler, and run() never returns True:
\* it returns False, or, when a second interrupt arrives inside the
\* handler's stop(), it does not return a value at all.
C27_InterruptStopsAndFails ==
    interrupts > 0 =>
        /\ stop_calls >= 1
        /\ stop_site = "interrupt"
        /\ result # "True"
        /\ cpc = "returned" => (result = "False" \/ (result = "raised" /\ interrupts >= 2))

C27_Witness ==
    /\ interrupts > 0
    /\ cpc = "returned"
    /\ result = "False"
    /\ \E w \in Names : runs[w] > 0

\* the number of puts of items, by any worker, on the queue owned by q
PutsOn(q) ==
    LET by(w) == Len(SelectSeq(puts[w], LAMBDA e : e[1] = q))
    IN  by("A") + by("B") + by("C")

\* C28: the puts of a worker's done_with_item calls come in blocks of
\* k = Len(output_queues): the j-th put of a block goes to the j-th output
\* queue, which is the j-th name of the descriptor's next list, and all puts
\* of a block carry the same item; a block is incomplete only while the call
\* is in progress or after the process was killed inside it; and every put
\* is in the queue's history, which holds no other item.
C28_FanOutCopiesToEach ==
    /\ \A w \in Range(workers) :
         LET out == output_queues[w]
             k == Len(out)
             n == Len(puts[w])
             d == CHOOSE d \in Range(config) : d.name = w
         IN  /\ out = d.next
             /\ k = 0 => n = 0
             /\ k > 0 =>
                  /\ \A j \in 1 .. n :
                       /\ puts[w][j][1] = out[((j - 1) % k) + 1]
                       /\ puts[w][j][2] = puts[w][j - ((j - 1) % k)][2]
                       /\ puts[w][j][2] # STOP
                  /\ n % k # 0 =>
                       \/ /\ wst[w] = "put"
                          /\ oi[w] = (n % k) + 1
                          /\ cur[w] = puts[w][n][2]
                       \/ wst[w] \in {"crashed", "terminated"}
                  /\ (n % k = 0 /\ wst[w] = "put") => oi[w] = 1
    /\ \A q \in DOMAIN queues : Len(Items(enq[q])) = PutsOn(q)

\* C28 witness: A has emitted two items, each of them went to B's queue and
\* then to C's queue, and both consumers were passed both
C28_Witness ==
    /\ config = FanOutConfig
    /\ Len(puts["A"]) >= 4
    /\ puts["A"][1] = <<"B", 1>> /\ puts["A"][2] = <<"C", 1>>
    /\ puts["A"][3] = <<"B", 2>> /\ puts["A"][4] = <<"C", 2>>
    /\ IsPrefix(<<1, 2>>, ran["B"]) /\ IsPrefix(<<1, 2>>, ran["C"])

C30_ListedTypesResolve ==
    cpc \notin {"construct", "setup"} =>
        \A i \in DOMAIN config :
            config[i].type \in WORKER_REGISTRY \ {"ReadFramesFromVidFile"}
                => config[i].name \in Range(workers)

\* the positions of run() inside the supervision loop and the stop() calls
\* made from it
Supervising == {"check_dead", "check_sources", "stop_put", "stop_wait", "stop_kill"}

\* C31: run() is past setup() only after setup() ran; it is at start() or
\* beyond only if setup() returned True, and in the supervision loop only if
\* start() launched every worker; when setup() or start() returned False,
\* run() has returned False at once: no stop(), no process launched after
\* the failure, and run() does nothing further.
C31_SetupThenStartFailFast ==
    /\ [](/\ cpc \in {"start", "start_failed", "returned"} \cup Supervising
              => FirstRaise(config) = 0
          /\ cpc \in Supervising \cup {"returned"} => processes = workers
          /\ cpc \in {"setup", "start", "setup_failed"} => processes = <<>>
          /\ cpc \in {"setup_failed", "start_failed"}
              => (result = "False" /\ stop_calls = 0 /\ stop_site = "none")
          /\ cpc = "setup_failed" => FirstRaise(config) # 0
          /\ cpc = "start_failed" => Len(processes) < Len(workers))
    /\ [][/\ cpc = "setup" => cpc' \in {"setup", "start", "setup_failed"}
          /\ cpc = "start" => cpc' \in {"start", "check_dead", "start_failed"}
          /\ cpc' = "start" => cpc \in {"setup", "start"}
          /\ cpc' = "check_dead" => cpc \in {"start"} \cup Supervising
          /\ cpc \in {"setup_failed", "start_failed"}
              => (cpc' = cpc /\ result' = result /\ processes' = processes
                  /\ stop_calls' = stop_calls)]_vars

\* C31 witness: start() failed after launching one worker of three and
\* run() returned False without calling stop()
C31_Witness ==
    /\ cpc = "start_failed"
    /\ result = "False"
    /\ Len(workers) = 3 /\ Len(processes) = 1
    /\ stop_calls = 0

\* the number of pairs (source worker, entry of its next list) that name q
SourceEdges(q) ==
    Cardinality({<<i, j>> \in (DOMAIN config) \X (1 .. 3) :
                    /\ config[i].source
                    /\ config[i].name \in Range(workers)
                    /\ j \in DOMAIN config[i].next
                    /\ config[i].next[j] = q})

\* C32: a stop() never puts more 'STOP' on an input queue than there are
\* (source, next entry) pairs naming its owner, and when its puts are done
\* it has put exactly that many: one per pair, and none on the queue of a
\* worker that is no direct successor of a source.
C32_StopFeedsSourceSuccessorsOnly ==
    \A q \in DOMAIN queues :
        /\ injected[q] <= SourceEdges(q)
        /\ (stop_calls = 1 /\ cpc \in {"stop_wait", "stop_kill", "returned"})
               => injected[q] = SourceEdges(q)
        /\ (\A i \in DOMAIN config : config[i].source => q \notin Range(config[i].next))
               => injected[q] = 0

\* C32 witness: stop() has returned after one 'STOP' each for the two
\* successors of the source A
C32_Witness ==
    /\ stop_calls = 1 /\ cpc = "returned"
    /\ config = FanOutConfig
    /\ injected["B"] = 1 /\ injected["C"] = 1
    /\ enq["B"] = <<STOP>>

\* the number of times name n occurs in the sequence s
Times(n, s) == Cardinality({k \in DOMAIN s : s[k] = n})

\* C33: for a legacy task list in which every task carries prev_task, the
\* normalized list has one descriptor per task, at the same position and
\* with the same name; name c occurs in the next list of descriptor p
\* exactly when some task named c has p's name as prev_task, once per such
\* task; and the next list is the one name matching gives, in task order.
C33_PrevTaskWiresByName ==
    (/\ document.kind = "tasks"
     /\ cpc = "setup"
     /\ \A i \in DOMAIN document.list : document.list[i].prev_task # Absent)
    => LET tasks == document.list IN
       /\ Len(config) = Len(tasks)
       /\ \A p \in DOMAIN tasks :
            /\ config[p].name = tasks[p].name
            /\ config[p].source = (tasks[p].prev_task = Empty)
            /\ \A c \in Range(TaskNames) :
                 /\ c \in Range(config[p].next)
                      <=> \E i \in DOMAIN tasks :
                             tasks[i].name = c /\ tasks[i].prev_task = tasks[p].name
                 /\ Times(c, config[p].next) =
                      Cardinality({i \in DOMAIN tasks :
                          tasks[i].name = c /\ tasks[i].prev_task = tasks[p].name})
            /\ config[p].next = Canonical(tasks)[p].next

\* C33 witness: three tasks given out of graph order, C <- B <- A with A
\* the source listed last, are wired A -> B -> C
C33_Witness ==
    /\ cpc = "setup"
    /\ document = Doc("tasks", << Task("C", "Yolo3Detect", "B"),
                                  Task("B", "Yolo3Detect", "A"),
                                  Task("A", "Yolo3Detect", Empty) >>)
    /\ config[3].next = <<"B">> /\ config[2].next = <<"C">> /\ config[1].next = <<>>
    /\ config[3].source /\ ~config[1].source

\* the workers that hold the input queue of q among their output queues
Producers(q) == {w \in Range(workers) : q \in Range(output_queues[w])}

\* C34: after a successful setup() every input queue has at most one
\* producing worker, no worker being named by the next lists of two
\* descriptors; and a consumer that has ended its loop on a 'STOP' has no
\* producer that is still running.
C34_SingleProducerPerQueue ==
    (cpc \notin {"construct", "setup", "setup_failed"}) =>
        \A q \in DOMAIN queues :
            /\ Cardinality(Producers(q)) <= 1
            /\ Cardinality({i \in DOMAIN config : q \in Range(config[i].next)}) <= 1
            /\ (STOP \in Range(seen[q]) /\ faults = 0)
                   => \A w \in Producers(q) : wst[w] \notin {"loop", "put"}

\* C35: the stop() that __exit__ calls after run() has stopped the pipeline
\* has no 'STOP' to put: with it the stop() calls together have put no more
\* tokens on a queue than one call puts, it is never held up by a full
\* queue, and it returns what the first call returned.
C35_StopIdempotent ==
    stop_site = "exit" =>
        /\ stop_targets = <<>>
        /\ \A q \in DOMAIN queues : injected[q] <= SourceEdges(q)
        /\ cpc = "stop_put" => ENABLED stop_sent
        /\ cpc = "closed" => stop_ret = "True"

\* C36: as long as no write has failed, the lines in a file followed by the
\* lines in its buffer are the lines that arrived for it, each once and in
\* arrival order; no buffer is left holding buffer_size lines by the loop
\* turn that filled it; after shutdown() every buffer is empty and every
\* file holds the lines that arrived.  Whatever failed, no line is
\* discarded: the buffer is the tail of what arrived, and every line in
\* front of it is in the file.
C36_BufferedLinesWrittenOnce ==
    \A f \in Files :
        /\ ffails = 0 =>
             /\ written[f] \o buffer[f] = arrived[f]
             /\ Len(buffer[f]) < buffer_size
             /\ fpc = "down" => (buffer[f] = <<>> /\ written[f] = arrived[f])
        /\ Len(buffer[f]) <= Len(arrived[f])
        /\ buffer[f] = SubSeq(arrived[f], Len(arrived[f]) - Len(buffer[f]) + 1,
                              Len(arrived[f]))
        /\ \A j \in 1 .. (Len(arrived[f]) - Len(buffer[f])) :
             arrived[f][j] \in Range(written[f])

\* C36 witness: after three run(item) calls and shutdown(), without a failed
\* write, one file holds three lines or more, written in two goes, and the
\* other holds one
C36_Witness ==
    /\ fpc = "down" /\ ffails = 0 /\ fn = 3
    /\ Len(written["f1"]) >= 3
    /\ Len(written["f2"]) = 1
    /\ written["f1"] = arrived["f1"]

====
